---- MODULE Spec2Model ----
(***************************************************************************)
(* Client-side SASL authentication of irssi (src/irc/core/sasl.c): the     *)
(* signal handlers registered by sasl_init, the reassembly of inbound      *)
(* AUTHENTICATE fragments, and the chunking of outbound responses.         *)
(*                                                                         *)
(* Conventions                                                             *)
(*   - a C string / GString is a sequence of characters, each character a  *)
(*     one-character TLA+ string; decoded payloads and credentials are     *)
(*     sequences of bytes (0..255);                                        *)
(*   - a pointer is a sequence of length 0 (NULL) or 1 (the pointee);      *)
(*   - a state of the model is the state between two handlers: the event   *)
(*     loop is single threaded and every handler runs to completion.       *)
(***************************************************************************)
EXTENDS Integers, Sequences, FiniteSets, TLC

VARIABLES
    sasl_timeout,   \* server->sasl_timeout: 0 or the handle of a timer
    sasl_buffer,    \* server->sasl_buffer: NULL or the retained GString
    timers,         \* handles of the g_timeout_add sources still pending
    connrec,        \* server->connrec: sasl_mechanism, sasl_username, sasl_password
    connected,      \* FALSE once "server disconnected" has been handled
    started,        \* "server cap ack sasl" has been handled at least once
    terminal,       \* history: an outcome was reported or the disconnect handled
    out,            \* lines sent by the last handler, in order
    sig,            \* signals emitted by the last handler, in order
    n_finish_cap,   \* calls of cap_finish_negotiation so far
    n_success,      \* "server sasl success" emitted so far
    n_failure,      \* "server sasl failure" emitted so far
    ev,             \* history: the last event handled and what held just before it
    response,       \* encoder harness: the payload handed to sasl_send_response
    fed,            \* encoder harness: number of sent chunks fed back so far
    rets,           \* encoder harness: what sasl_reassemble_incoming returned per chunk
    req             \* *decoded (the local req of sasl_step) after the last fragment

vars == <<sasl_timeout, sasl_buffer, timers, connrec, connected, started, terminal,
          out, sig, n_finish_cap, n_success, n_failure, ev, response, fed, rets, req>>

(***************************************************************************)
(* Program constants                                                       *)
(***************************************************************************)
AUTHENTICATE_CHUNK_SIZE == 400
AUTHENTICATE_MAX_SIZE == 8192

SASL_MECHANISM_PLAIN == "PLAIN"
SASL_MECHANISM_EXTERNAL == "EXTERNAL"

NULL == <<>>
Ptr(x) == <<x>>

(***************************************************************************)
(* Bounds of the model                                                     *)
(***************************************************************************)
\* terminal handlers (numerics, timeout, reassembly failure) run at most this often
MaxOutcomes == 2
\* at most this many timers are pending at once
MaxTimers == 2
\* under Spec a run of full-size fragments is at most this long (SpecReassembly
\* has no such limit)
MaxChunkRun == 2
\* the encoder harness draws payloads of up to this many bytes
MaxPayloadLen == 6147
\* payload lengths up to this one are all drawn
SmallLen == 4

(***************************************************************************)
(* Base64 (glib's g_base64_encode / g_base64_decode, as sasl.c calls them) *)
(***************************************************************************)
base64_alphabet ==
    << "A","B","C","D","E","F","G","H","I","J","K","L","M","N","O","P",
       "Q","R","S","T","U","V","W","X","Y","Z","a","b","c","d","e","f",
       "g","h","i","j","k","l","m","n","o","p","q","r","s","t","u","v",
       "w","x","y","z","0","1","2","3","4","5","6","7","8","9","+","/" >>

\* mime_base64_rank: the 6-bit value of a character, 0 for the padding '=',
\* 0xff for every character that is not part of the encoding
mime_base64_rank_table ==
    [c \in {base64_alphabet[i] : i \in 1..64} \cup {"="} |->
        IF c = "=" THEN 0 ELSE (CHOOSE i \in 1..64 : base64_alphabet[i] = c) - 1]

mime_base64_rank(c) ==
    IF c \in DOMAIN mime_base64_rank_table THEN mime_base64_rank_table[c] ELSE 255

\* g_base64_encode(data, len): 3 bytes -> 4 characters, '=' padded
g_base64_encode(data) ==
    LET n == Len(data)
        groups == (n + 2) \div 3
        byte(i) == IF i <= n THEN data[i] ELSE 0
        v(g) == byte(3*g - 2) * 65536 + byte(3*g - 1) * 256 + byte(3*g)
        ch(j) ==
            LET g == (j + 3) \div 4
                k == (j - 1) % 4
            IN  CASE k = 0 -> base64_alphabet[(v(g) \div 262144) + 1]
                  [] k = 1 -> base64_alphabet[((v(g) \div 4096) % 64) + 1]
                  [] k = 2 -> IF 3*g - 1 > n THEN "="
                              ELSE base64_alphabet[((v(g) \div 64) % 64) + 1]
                  [] k = 3 -> IF 3*g > n THEN "="
                              ELSE base64_alphabet[(v(g) % 64) + 1]
    IN  [j \in 1..(4 * groups) |-> ch(j)]

\* g_base64_decode(text, &len): characters outside the alphabet are skipped,
\* every 4 remaining characters give 1..3 bytes depending on trailing '=',
\* a trailing incomplete group is dropped; it never fails
g_base64_decode(text) ==
    LET s == SelectSeq(text, LAMBDA c : mime_base64_rank(c) # 255)
        groups == Len(s) \div 4
        r(i) == mime_base64_rank(s[i])
        v(g) == r(4*g - 3) * 262144 + r(4*g - 2) * 4096 + r(4*g - 1) * 64 + r(4*g)
        b(j) ==
            LET g == (j + 2) \div 3
                k == (j - 1) % 3
            IN  CASE k = 0 -> v(g) \div 65536
                  [] k = 1 -> IF s[4*g - 1] = "=" THEN 0 - 1 ELSE (v(g) \div 256) % 256
                  [] k = 2 -> IF s[4*g] = "=" THEN 0 - 1 ELSE v(g) % 256
        full == [j \in 1..(3 * groups) |-> b(j)]
    IN  SelectSeq(full, LAMBDA x : x >= 0)

(***************************************************************************)
(* sasl_reassemble_incoming(server, fragment, &decoded)                    *)
(* buffer is server->sasl_buffer on entry; the result holds the return     *)
(* value, server->sasl_buffer on exit and *decoded (NULL when not set)     *)
(***************************************************************************)
\* the same without the size check of lines 150-155
sasl_reassemble_incoming_unchecked(buffer, fragment) ==
    LET fragment_len == Len(fragment)
        enc_req == IF buffer # NULL
                   THEN IF fragment = <<"+">> THEN buffer[1]
                        ELSE buffer[1] \o fragment
                   ELSE fragment
    IN  IF fragment_len = AUTHENTICATE_CHUNK_SIZE
        THEN [ret |-> TRUE, buffer |-> Ptr(enc_req), decoded |-> NULL]
        ELSE IF Len(enc_req) = 1 /\ enc_req[1] = "+"
        THEN [ret |-> TRUE, buffer |-> NULL, decoded |-> Ptr(<<>>)]
        ELSE [ret |-> TRUE, buffer |-> NULL, decoded |-> Ptr(g_base64_decode(enc_req))]

\* the same with the size test made on the buffer before the fragment is
\* appended to it
sasl_reassemble_incoming_precheck(buffer, fragment) ==
    LET fragment_len == Len(fragment)
        enc_req == IF buffer # NULL
                   THEN IF fragment = <<"+">> THEN buffer[1]
                        ELSE buffer[1] \o fragment
                   ELSE fragment
    IN  IF buffer # NULL /\ Len(buffer[1]) > AUTHENTICATE_MAX_SIZE
        THEN [ret |-> FALSE, buffer |-> NULL, decoded |-> NULL]
        ELSE IF fragment_len = AUTHENTICATE_CHUNK_SIZE
        THEN [ret |-> TRUE, buffer |-> Ptr(enc_req), decoded |-> NULL]
        ELSE IF Len(enc_req) = 1 /\ enc_req[1] = "+"
        THEN [ret |-> TRUE, buffer |-> NULL, decoded |-> Ptr(<<>>)]
        ELSE [ret |-> TRUE, buffer |-> NULL, decoded |-> Ptr(g_base64_decode(enc_req))]

\* the same decoding the last fragment instead of the reassembled string
sasl_reassemble_incoming_fragment(buffer, fragment) ==
    LET fragment_len == Len(fragment)
        enc_req == IF buffer # NULL
                   THEN IF fragment = <<"+">> THEN buffer[1]
                        ELSE buffer[1] \o fragment
                   ELSE fragment
    IN  IF Len(enc_req) > AUTHENTICATE_MAX_SIZE
        THEN [ret |-> FALSE, buffer |-> NULL, decoded |-> NULL]
        ELSE IF fragment_len = AUTHENTICATE_CHUNK_SIZE
        THEN [ret |-> TRUE, buffer |-> Ptr(enc_req), decoded |-> NULL]
        ELSE IF Len(enc_req) = 1 /\ enc_req[1] = "+"
        THEN [ret |-> TRUE, buffer |-> NULL, decoded |-> Ptr(<<>>)]
        ELSE [ret |-> TRUE, buffer |-> NULL, decoded |-> Ptr(g_base64_decode(fragment))]

\* the same without the test of lines 161-164: every fragment is taken as
\* the last of its payload
sasl_reassemble_incoming_eager(buffer, fragment) ==
    LET enc_req == IF buffer # NULL
                   THEN IF fragment = <<"+">> THEN buffer[1]
                        ELSE buffer[1] \o fragment
                   ELSE fragment
    IN  IF Len(enc_req) > AUTHENTICATE_MAX_SIZE
        THEN [ret |-> FALSE, buffer |-> NULL, decoded |-> NULL]
        ELSE IF Len(enc_req) = 1 /\ enc_req[1] = "+"
        THEN [ret |-> TRUE, buffer |-> NULL, decoded |-> Ptr(<<>>)]
        ELSE [ret |-> TRUE, buffer |-> NULL, decoded |-> Ptr(g_base64_decode(enc_req))]

sasl_reassemble_incoming(buffer, fragment) ==
    LET fragment_len == Len(fragment)
        enc_req == IF buffer # NULL
                   THEN IF fragment = <<"+">> THEN buffer[1]
                        ELSE buffer[1] \o fragment
                   ELSE fragment
    IN  IF Len(enc_req) > AUTHENTICATE_MAX_SIZE
        THEN [ret |-> FALSE, buffer |-> NULL, decoded |-> NULL]
        ELSE IF fragment_len = AUTHENTICATE_CHUNK_SIZE
        THEN [ret |-> TRUE, buffer |-> Ptr(enc_req), decoded |-> NULL]
        ELSE IF Len(enc_req) = 1 /\ enc_req[1] = "+"
        THEN [ret |-> TRUE, buffer |-> NULL, decoded |-> Ptr(<<>>)]
        ELSE [ret |-> TRUE, buffer |-> NULL, decoded |-> Ptr(g_base64_decode(enc_req))]

(***************************************************************************)
(* Outbound lines: the function that wrote the line and the text after     *)
(* "AUTHENTICATE "                                                         *)
(***************************************************************************)
irc_send_cmd_now(arg) == [fn |-> "irc_send_cmd_now", arg |-> arg]
irc_send_cmdv(arg) == [fn |-> "irc_send_cmdv", arg |-> arg]

\* the chunks of enc that the loop of sasl_send_response sends
ResponseChunks(enc) ==
    LET enc_len == Len(enc)
        nchunks == (enc_len + AUTHENTICATE_CHUNK_SIZE - 1) \div AUTHENTICATE_CHUNK_SIZE
        offset(k) == (k - 1) * AUTHENTICATE_CHUNK_SIZE
        chunk_len(k) == IF enc_len - offset(k) > AUTHENTICATE_CHUNK_SIZE
                        THEN AUTHENTICATE_CHUNK_SIZE
                        ELSE enc_len - offset(k)
    IN  [k \in 1..nchunks |->
           irc_send_cmdv(SubSeq(enc, offset(k) + 1, offset(k) + chunk_len(k)))]

\* sasl_send_response without the test after the loop: no terminator
sasl_send_response_unterminated(resp) ==
    IF resp = NULL
    THEN << irc_send_cmdv(<<"+">>) >>
    ELSE ResponseChunks(g_base64_encode(resp[1]))

\* sasl_send_response with the test after the loop as offset >= enc_len:
\* the terminator follows every response
sasl_send_response_terminated(resp) ==
    IF resp = NULL
    THEN << irc_send_cmdv(<<"+">>) >>
    ELSE Append(ResponseChunks(g_base64_encode(resp[1])), irc_send_cmdv(<<"+">>))

\* sasl_send_response(server, response): the lines it sends, in order
sasl_send_response(resp) ==
    IF resp = NULL
    THEN << irc_send_cmdv(<<"+">>) >>
    ELSE LET enc == g_base64_encode(resp[1])
             chunks == ResponseChunks(enc)
         IN  IF Len(chunks) * AUTHENTICATE_CHUNK_SIZE = Len(enc)
             THEN Append(chunks, irc_send_cmdv(<<"+">>))
             ELSE chunks

(***************************************************************************)
(* sasl_step_complete(server, data): the lines sent for a completed        *)
(* request; the decoded request itself is not read                         *)
(***************************************************************************)
sasl_step_complete(conn, data) ==
    IF conn.sasl_mechanism = SASL_MECHANISM_PLAIN
    THEN sasl_send_response(Ptr(conn.sasl_username \o <<0>> \o conn.sasl_username
                                \o <<0>> \o conn.sasl_password))
    ELSE IF conn.sasl_mechanism = SASL_MECHANISM_EXTERNAL
    THEN sasl_send_response(NULL)
    ELSE <<>>

(***************************************************************************)
(* The timer service (glib main loop): g_timeout_add gives a handle that   *)
(* names no other pending source and differs from the one the server       *)
(* record holds; g_source_remove drops the source                          *)
(***************************************************************************)
g_timeout_add(pending, held) ==
    CHOOSE h \in 1..(Cardinality(pending) + 2) : h \notin pending /\ h # held

g_source_remove(pending, h) == pending \ {h}

\* the signals a handler emits
sasl_success_signal == [name |-> "server sasl success", reason |-> ""]
sasl_failure_signal(reason) == [name |-> "server sasl failure", reason |-> reason]

harness == <<response, fed, rets>>

\* what is recorded about the event just handled; frags is the run of
\* fragments received since the last one that completed a payload or failed,
\* done tells that the last fragment did so, answered that
\* sasl_step_complete has run in this session, aborted that the process
\* aborted inside the handler
Event(kind, armed, removed, finish_cap) ==
    [kind |-> kind, terminal_before |-> terminal, connected_before |-> connected,
     started_before |-> started, buffered_before |-> sasl_buffer # NULL,
     armed |-> armed, removed |-> removed, pending_before |-> timers,
     finish_cap |-> finish_cap, error |-> "", complete |-> 0,
     frags |-> IF ev.done THEN <<>> ELSE ev.frags, done |-> ev.done,
     answered_before |-> ev.answered, answered |-> ev.answered,
     aborted |-> FALSE]

\* the same for sasl_step on the fragment data, r being what
\* sasl_reassemble_incoming returned
StepEvent(data, r, armed, removed, finish_cap) ==
    [Event("authenticate", armed, removed, finish_cap) EXCEPT
        !.complete = IF r.ret /\ r.decoded # NULL THEN 1 ELSE 0,
        !.frags = Append(IF ev.done THEN <<>> ELSE ev.frags, data),
        !.done = (~r.ret \/ r.decoded # NULL),
        !.answered = (ev.answered \/ (r.ret /\ r.decoded # NULL))]

(***************************************************************************)
(* "server cap ack sasl" -> sasl_start                                     *)
(***************************************************************************)
sasl_start ==
    /\ connected
    /\ Cardinality(timers) < MaxTimers
    /\ LET h == g_timeout_add(timers, sasl_timeout)
       IN  /\ out' = IF connrec.sasl_mechanism = SASL_MECHANISM_PLAIN
                     THEN << irc_send_cmd_now(<<"P","L","A","I","N">>) >>
                     ELSE IF connrec.sasl_mechanism = SASL_MECHANISM_EXTERNAL
                     THEN << irc_send_cmd_now(<<"E","X","T","E","R","N","A","L">>) >>
                     ELSE <<>>
           /\ sasl_timeout' = h
           /\ timers' = timers \cup {h}
    /\ started' = TRUE
    /\ sig' = <<>>
    /\ req' = NULL
    /\ ev' = Event("cap ack sasl", TRUE, {}, 0)
    /\ UNCHANGED <<sasl_buffer, connrec, connected, terminal,
                   n_finish_cap, n_success, n_failure, harness>>

(***************************************************************************)
(* "event 902/904/905/906" -> sasl_fail; error is the second parameter     *)
(***************************************************************************)
\* sasl_fail without the g_source_remove of lines 80-83
sasl_fail_uncancelled(code, error) ==
    /\ connected
    /\ n_finish_cap < MaxOutcomes
    /\ sig' = << sasl_failure_signal(error) >>
    /\ n_failure' = n_failure + 1
    /\ n_finish_cap' = n_finish_cap + 1
    /\ out' = <<>>
    /\ req' = NULL
    /\ terminal' = TRUE
    /\ ev' = [Event(code, FALSE, {}, 1) EXCEPT !.error = error]
    /\ UNCHANGED <<sasl_timeout, timers, sasl_buffer, connrec, connected, started,
                   n_success, harness>>

sasl_fail(code, error) ==
    /\ connected
    /\ n_finish_cap < MaxOutcomes
    /\ timers' = IF sasl_timeout # 0 THEN g_source_remove(timers, sasl_timeout) ELSE timers
    /\ sasl_timeout' = 0
    /\ sig' = << sasl_failure_signal(error) >>
    /\ n_failure' = n_failure + 1
    /\ n_finish_cap' = n_finish_cap + 1
    /\ out' = <<>>
    /\ req' = NULL
    /\ terminal' = TRUE
    /\ ev' = [Event(code, FALSE, IF sasl_timeout # 0 THEN {sasl_timeout} ELSE {}, 1)
                EXCEPT !.error = error]
    /\ UNCHANGED <<sasl_buffer, connrec, connected, started, n_success, harness>>

(***************************************************************************)
(* "event 907" -> sasl_already                                             *)
(***************************************************************************)
sasl_already ==
    /\ connected
    /\ n_finish_cap < MaxOutcomes
    /\ timers' = IF sasl_timeout # 0 THEN g_source_remove(timers, sasl_timeout) ELSE timers
    /\ sasl_timeout' = 0
    /\ sig' = << sasl_success_signal >>
    /\ n_success' = n_success + 1
    /\ n_finish_cap' = n_finish_cap + 1
    /\ out' = <<>>
    /\ req' = NULL
    /\ terminal' = TRUE
    /\ ev' = Event("907", FALSE, IF sasl_timeout # 0 THEN {sasl_timeout} ELSE {}, 1)
    /\ UNCHANGED <<sasl_buffer, connrec, connected, started, n_failure, harness>>

(***************************************************************************)
(* "event 903" -> sasl_success                                             *)
(***************************************************************************)
sasl_success ==
    /\ connected
    /\ n_finish_cap < MaxOutcomes
    /\ timers' = IF sasl_timeout # 0 THEN g_source_remove(timers, sasl_timeout) ELSE timers
    /\ sasl_timeout' = 0
    /\ sig' = << sasl_success_signal >>
    /\ n_success' = n_success + 1
    /\ n_finish_cap' = n_finish_cap + 1
    /\ out' = <<>>
    /\ req' = NULL
    /\ terminal' = TRUE
    /\ ev' = Event("903", FALSE, IF sasl_timeout # 0 THEN {sasl_timeout} ELSE {}, 1)
    /\ UNCHANGED <<sasl_buffer, connrec, connected, started, n_failure, harness>>

(***************************************************************************)
(* The timer h fires -> sasl_timeout(server); the callback returns FALSE,  *)
(* so the main loop drops the source. A source that sasl_disconnected did  *)
(* not remove still fires after the disconnect.                            *)
(***************************************************************************)
\* the callback without the assignment of line 50: the handle of the timer
\* that fired stays in server->sasl_timeout
sasl_timeout_callback_stale(h) ==
    /\ h \in timers
    /\ n_finish_cap < MaxOutcomes
    /\ out' = << irc_send_cmd_now(<<"*">>) >>
    /\ n_finish_cap' = n_finish_cap + 1
    /\ sig' = << sasl_failure_signal("The authentication timed out") >>
    /\ n_failure' = n_failure + 1
    /\ timers' = timers \ {h}
    /\ req' = NULL
    /\ terminal' = TRUE
    /\ ev' = Event("timeout", FALSE, {}, 1)
    /\ UNCHANGED <<sasl_timeout, sasl_buffer, connrec, connected, started, n_success,
                   harness>>

\* After "server disconnected" the caller releases the server record, and
\* the callback of a timer that is still pending then works on a dangling
\* pointer: undefined behaviour.  The build decides what is seen: the handler
\* may run as if the record were alive, or the process aborts at the first
\* access of line 47, or at the write of line 50 after the calls of lines 47
\* and 48 and before the signal of line 52.  Nothing runs after an abort.
sasl_timeout_callback(h) ==
    /\ h \in timers
    /\ n_finish_cap < MaxOutcomes
    /\ ~ev.aborted
    /\ timers' = timers \ {h}
    /\ req' = NULL
    /\ terminal' = TRUE
    /\ \/ /\ out' = << irc_send_cmd_now(<<"*">>) >>
          /\ n_finish_cap' = n_finish_cap + 1
          /\ sasl_timeout' = 0
          /\ sig' = << sasl_failure_signal("The authentication timed out") >>
          /\ n_failure' = n_failure + 1
          /\ ev' = Event("timeout", FALSE, {}, 1)
       \/ /\ ~connected
          /\ out' = << irc_send_cmd_now(<<"*">>) >>
          /\ n_finish_cap' = n_finish_cap + 1
          /\ sig' = <<>>
          /\ ev' = [Event("timeout", FALSE, {}, 1) EXCEPT !.aborted = TRUE]
          /\ UNCHANGED <<sasl_timeout, n_failure>>
       \/ /\ ~connected
          /\ out' = <<>>
          /\ sig' = <<>>
          /\ ev' = [Event("timeout", FALSE, {}, 0) EXCEPT !.aborted = TRUE]
          /\ UNCHANGED <<sasl_timeout, n_finish_cap, n_failure>>
    /\ UNCHANGED <<sasl_buffer, connrec, connected, started, n_success, harness>>

(***************************************************************************)
(* sasl_step_fail(server): what it sends and emits                         *)
(***************************************************************************)
sasl_step_fail ==
    [out |-> << irc_send_cmd_now(<<"*">>) >>,
     sig |-> << sasl_failure_signal("The server sent an invalid payload") >>]

(***************************************************************************)
(* "event authenticate" -> sasl_step; data is the fragment                 *)
(***************************************************************************)
sasl_step(data) ==
    \E r \in {sasl_reassemble_incoming(sasl_buffer, data)} :
    LET stopped == IF sasl_timeout # 0 THEN g_source_remove(timers, sasl_timeout)
                   ELSE timers
        removed == IF sasl_timeout # 0 THEN {sasl_timeout} ELSE {}
    IN  /\ connected
        /\ sasl_buffer' = r.buffer
        /\ req' = r.decoded
        /\ IF ~r.ret
           THEN /\ n_finish_cap < MaxOutcomes
                /\ out' = sasl_step_fail.out
                /\ sig' = sasl_step_fail.sig
                /\ n_finish_cap' = n_finish_cap + 1
                /\ n_failure' = n_failure + 1
                /\ sasl_timeout' = 0
                /\ timers' = stopped
                /\ terminal' = TRUE
                /\ ev' = StepEvent(data, r, FALSE, removed, 1)
           ELSE /\ Cardinality(stopped) < MaxTimers
                /\ out' = IF r.decoded # NULL
                          THEN sasl_step_complete(connrec, r.decoded[1])
                          ELSE <<>>
                /\ sig' = <<>>
                /\ LET h == g_timeout_add(stopped, 0)
                   IN  /\ sasl_timeout' = h
                       /\ timers' = stopped \cup {h}
                /\ ev' = StepEvent(data, r, TRUE, removed, 0)
                /\ UNCHANGED <<n_finish_cap, n_failure, terminal>>
        /\ UNCHANGED <<connrec, connected, started, n_success, harness>>

(***************************************************************************)
(* "server disconnected" -> sasl_disconnected (the server is an IRC        *)
(* server: only those carry the SASL fields)                               *)
(***************************************************************************)
sasl_disconnected ==
    /\ connected
    /\ connected' = FALSE
    /\ timers' = IF sasl_timeout # 0 THEN g_source_remove(timers, sasl_timeout) ELSE timers
    /\ sasl_timeout' = 0
    /\ out' = <<>>
    /\ sig' = <<>>
    /\ req' = NULL
    /\ terminal' = TRUE
    /\ ev' = Event("disconnected", FALSE,
                IF sasl_timeout # 0 THEN {sasl_timeout} ELSE {}, 0)
    /\ UNCHANGED <<sasl_buffer, connrec, started, n_finish_cap, n_success, n_failure,
                   harness>>

(***************************************************************************)
(* Inputs                                                                  *)
(***************************************************************************)
\* n characters of the base64 alphabet
Base64Text(n) == [i \in 1..n |-> base64_alphabet[((i * 7) % 64) + 1]]

\* inbound AUTHENTICATE parameters: the terminator, an empty one, short
\* ones (with and without padding, and outside the alphabet), a full chunk,
\* and two that bring 20 chunks to the limit and past it
Fragments ==
    { <<"+">>, <<>>, <<"Q","U","J","D">>, <<"Q","Q","=","=">>, <<"!","*">>,
      Base64Text(AUTHENTICATE_CHUNK_SIZE),
      Base64Text(AUTHENTICATE_MAX_SIZE % AUTHENTICATE_CHUNK_SIZE),
      Base64Text((AUTHENTICATE_MAX_SIZE % AUTHENTICATE_CHUNK_SIZE) + 4) }

FailNumerics == {"902", "904", "905", "906"}
Errors == {"Invalid credentials", "SASL authentication aborted"}

ConnRecs ==
    { [sasl_mechanism |-> SASL_MECHANISM_PLAIN,
       sasl_username |-> <<97, 108>>, sasl_password |-> <<104, 50>>],
      [sasl_mechanism |-> SASL_MECHANISM_EXTERNAL,
       sasl_username |-> <<>>, sasl_password |-> <<>>] }

NoEvent ==
    [kind |-> "none", terminal_before |-> FALSE, connected_before |-> TRUE,
     started_before |-> FALSE, buffered_before |-> FALSE,
     armed |-> FALSE, removed |-> {}, pending_before |-> {}, finish_cap |-> 0,
     error |-> "", complete |-> 0, frags |-> <<>>, done |-> TRUE,
     answered_before |-> FALSE, answered |-> FALSE, aborted |-> FALSE]

Init ==
    /\ sasl_timeout = 0
    /\ sasl_buffer = NULL
    /\ timers = {}
    /\ connrec \in ConnRecs
    /\ connected = TRUE
    /\ started = FALSE
    /\ terminal = FALSE
    /\ out = <<>>
    /\ sig = <<>>
    /\ n_finish_cap = 0
    /\ n_success = 0
    /\ n_failure = 0
    /\ ev = NoEvent
    /\ response = NULL
    /\ fed = 0
    /\ rets = <<>>
    /\ req = NULL

\* Spec delivers a full-size fragment only while the run is short
Admitted(f) ==
    IF Len(f) = AUTHENTICATE_CHUNK_SIZE /\ sasl_buffer # NULL
    THEN Len(sasl_buffer[1]) < MaxChunkRun * AUTHENTICATE_CHUNK_SIZE
    ELSE TRUE

Next ==
    \/ sasl_start
    \/ \E f \in Fragments : Admitted(f) /\ sasl_step(f)
    \/ sasl_success
    \/ sasl_already
    \/ \E code \in FailNumerics, error \in Errors : sasl_fail(code, error)
    \/ \E h \in timers : sasl_timeout_callback(h)
    \/ sasl_disconnected

Spec == Init /\ [][Next]_vars

(***************************************************************************)
(* SpecReassembly: the same session under inbound AUTHENTICATE fragments   *)
(* of any run length, with success numerics and the disconnect in between  *)
(***************************************************************************)
NextReassembly ==
    \/ \E f \in Fragments : sasl_step(f)
    \/ sasl_success
    \/ sasl_disconnected

\* the run of fragments does not depend on the mechanism: one is enough here
InitReassembly == Init /\ connrec.sasl_mechanism = SASL_MECHANISM_PLAIN

SpecReassembly == InitReassembly /\ [][NextReassembly]_vars

(***************************************************************************)
(* SpecEncoder: sasl_send_response is called on a payload and every line   *)
(* it sent is handed, in order, to sasl_reassemble_incoming of a session   *)
(* with no retained buffer                                                 *)
(***************************************************************************)
\* n bytes; the seed varies the content, which includes 0 and 255
Payload(n, seed) == [i \in 1..n |-> (i * 89 + seed * 255) % 256]

\* decoded bytes carried by one full chunk
CHUNK_BYTES == (AUTHENTICATE_CHUNK_SIZE \div 4) * 3

\* lengths drawn: the small ones, those around every multiple of a chunk,
\* and the largest
PayloadLens ==
    { n \in 0..MaxPayloadLen :
        \/ n <= SmallLen
        \/ n % CHUNK_BYTES \in {0, 1, CHUNK_BYTES - 1}
        \/ n >= MaxPayloadLen - SmallLen }

Responses ==
    {NULL} \cup { Ptr(Payload(n, seed)) : n \in PayloadLens, seed \in {0, 1} }

InitEncoder ==
    /\ sasl_timeout = 0
    /\ sasl_buffer = NULL
    /\ timers = {}
    /\ connrec \in {c \in ConnRecs : c.sasl_mechanism = SASL_MECHANISM_EXTERNAL}
    /\ connected = TRUE
    /\ started = FALSE
    /\ terminal = FALSE
    /\ out = <<>>
    /\ sig = <<>>
    /\ n_finish_cap = 0
    /\ n_success = 0
    /\ n_failure = 0
    /\ ev = NoEvent
    /\ response \in Responses
    /\ fed = 0
    /\ rets = <<>>
    /\ req = NULL

session == <<sasl_timeout, timers, connrec, connected, started, terminal, sig,
             n_finish_cap, n_success, n_failure>>

\* the call sasl_send_response(server, response)
SendResponse ==
    /\ ev.kind = "none"
    /\ out' = sasl_send_response(response)
    /\ ev' = [ev EXCEPT !.kind = "sasl_send_response"]
    /\ UNCHANGED <<session, sasl_buffer, response, fed, rets, req>>

\* the next line sent goes through sasl_reassemble_incoming
FeedChunk ==
    /\ ev.kind # "none"
    /\ fed < Len(out)
    /\ \E r \in {sasl_reassemble_incoming(sasl_buffer, out[fed + 1].arg)} :
         /\ sasl_buffer' = r.buffer
         /\ req' = r.decoded
         /\ rets' = Append(rets, r.ret)
    /\ fed' = fed + 1
    /\ ev' = [ev EXCEPT !.kind = "sasl_reassemble_incoming"]
    /\ UNCHANGED <<session, out, response>>

NextEncoder == SendResponse \/ FeedChunk

SpecEncoder == InitEncoder /\ [][NextEncoder]_vars

(***************************************************************************)
(* Properties                                                              *)
(***************************************************************************)
SaslEvents == {"authenticate", "903", "907"} \cup FailNumerics

\* the last handler made a terminal transition
TerminalEvent == ev.finish_cap = 1 \/ ev.kind = "disconnected"

\* C1: over a session cap_finish_negotiation is called once and one outcome
\* signal is emitted: never more than one of either, and when the session has
\* been disconnected either one call with one outcome or none of both
C1_ExactlyOnce ==
    /\ n_finish_cap <= 1
    /\ n_success + n_failure <= 1
    /\ ~connected => n_finish_cap = n_success + n_failure

\* C2: a SASL event (AUTHENTICATE or a numeric 902-907) handled after a
\* terminal transition sends nothing, emits nothing, does not call
\* cap_finish_negotiation and arms no timer
C2_IgnoredAfterTerminal ==
    (ev.kind \in SaslEvents /\ ev.terminal_before) =>
        /\ out = <<>>
        /\ sig = <<>>
        /\ ev.finish_cap = 0
        /\ ~ev.armed

\* C3: at most one timeout timer of the session is pending
C3_AtMostOneTimer == Cardinality(timers) <= 1

\* C4: the retained reassembly buffer is never longer than AUTHENTICATE_MAX_SIZE
C4_BufferBounded ==
    sasl_buffer # NULL => Len(sasl_buffer[1]) <= AUTHENTICATE_MAX_SIZE

\* C4 witness: a buffer is retained that one more full fragment would bring
\* past the limit
C4_Witness ==
    /\ sasl_buffer # NULL
    /\ Len(sasl_buffer[1]) + AUTHENTICATE_CHUNK_SIZE > AUTHENTICATE_MAX_SIZE

\* C5: after a terminal transition the session holds no reassembly buffer and
\* no timer handle
C5_ClearedAfterTerminal ==
    TerminalEvent => sasl_buffer = NULL /\ sasl_timeout = 0

\* C6: once the disconnect has been handled no timer of the session is pending
\* and no timeout callback runs
C6_NoTimerAfterDisconnect ==
    /\ ~connected => timers = {}
    /\ ev.kind = "timeout" => ev.connected_before

\* C7: handling the disconnect sends no line, emits no signal, calls
\* cap_finish_negotiation not at all and leaves the mechanism and the
\* credentials as they were; it releases the timer the session holds and the
\* reassembly buffer, and changes nothing else
C7_DisconnectSilent ==
    [][(connected /\ ~connected') =>
          /\ out' = <<>>
          /\ sig' = <<>>
          /\ n_finish_cap' = n_finish_cap
          /\ n_success' = n_success
          /\ n_failure' = n_failure
          /\ connrec' = connrec
          /\ started' = started
          /\ sasl_timeout' = 0
          /\ timers' \subseteq timers
          /\ sasl_buffer' = NULL]_vars

\* C10: every AUTHENTICATE line is written by irc_send_cmd_now, the path that
\* bypasses the outbound queue
C10_AllImmediate ==
    \A i \in 1..Len(out) : out[i].fn = "irc_send_cmd_now"

\* the text of lines 1..n of a sequence of sent lines, concatenated
RECURSIVE ConcatArgs(_, _)
ConcatArgs(lines, n) ==
    IF n = 0 THEN <<>> ELSE ConcatArgs(lines, n - 1) \o lines[n].arg

\* number of chunks needed for E encoded characters
CeilChunks(E) == (E + AUTHENTICATE_CHUNK_SIZE - 1) \div AUTHENTICATE_CHUNK_SIZE

\* length of the base64 encoding of n bytes
EncodedLen(n) == 4 * ((n + 2) \div 3)

\* C8: when the lines sasl_send_response sent for a payload whose encoding is
\* at most AUTHENTICATE_MAX_SIZE long are fed in order to
\* sasl_reassemble_incoming, no call fails, every call but the last reports
\* more expected (nothing decoded, buffer retained) and the last gives the
\* payload back and leaves no buffer
C8_RoundTrip ==
    (/\ ev.kind # "none"
     /\ response # NULL
     /\ EncodedLen(Len(response[1])) <= AUTHENTICATE_MAX_SIZE) =>
        /\ \A i \in 1..fed : rets[i]
        /\ (0 < fed /\ fed < Len(out)) => (req = NULL /\ sasl_buffer # NULL)
        /\ fed = Len(out) => (req = Ptr(response[1]) /\ sasl_buffer = NULL)

\* C8 witness: a non-empty payload whose encoding is a multiple of the chunk
\* size, sent as several chunks and the terminator, has been fed back whole
C8_Witness ==
    /\ ev.kind = "sasl_reassemble_incoming"
    /\ response # NULL
    /\ Len(out) > 2
    /\ out[Len(out)].arg = <<"+">>
    /\ fed = Len(out)
    /\ req = response

\* C9: for a payload with E encoded characters sasl_send_response sends
\* ceil(E/400) chunks, all but the last 400 long, that concatenate to the
\* encoding, followed by "+" exactly when E is a multiple of 400; for no
\* payload it sends the single line "+"
C9_Chunking ==
    ev.kind = "sasl_send_response" =>
        IF response = NULL
        THEN out = << irc_send_cmdv(<<"+">>) >>
        ELSE LET enc == g_base64_encode(response[1])
                 E == Len(enc)
                 n == CeilChunks(E)
             IN  /\ Len(out) = n + (IF E % AUTHENTICATE_CHUNK_SIZE = 0 THEN 1 ELSE 0)
                 /\ ConcatArgs(out, n) = enc
                 /\ \A k \in 1..(n - 1) : Len(out[k].arg) = AUTHENTICATE_CHUNK_SIZE
                 /\ \A k \in 1..n : Len(out[k].arg) >= 1
                 /\ E % AUTHENTICATE_CHUNK_SIZE = 0 => out[n + 1].arg = <<"+">>

\* C9 witness: responses of both kinds have been sent: one ending in a short
\* chunk and no terminator
C9_Witness ==
    /\ ev.kind = "sasl_send_response"
    /\ response # NULL
    /\ Len(out) > 1
    /\ Len(out[Len(out)].arg) > 1
    /\ Len(out[Len(out)].arg) < AUTHENTICATE_CHUNK_SIZE

\* C11: when the timeout timer fires, its handler sends "AUTHENTICATE *" at
\* once, calls cap_finish_negotiation, emits the failure "The authentication
\* timed out" and leaves no timer pending
C11_TimeoutCloses ==
    ev.kind = "timeout" =>
        /\ out = << irc_send_cmd_now(<<"*">>) >>
        /\ sig = << sasl_failure_signal("The authentication timed out") >>
        /\ ev.finish_cap = 1
        /\ sasl_timeout = 0
        /\ timers = {}

\* the fragment the last sasl_step was given
LastFragment == ev.frags[Len(ev.frags)]

\* the fragments of the run that carry payload: a "+" that closes a run of
\* earlier fragments is a terminator and carries none
PayloadFragments ==
    IF Len(ev.frags) > 1 /\ LastFragment = <<"+">>
    THEN SubSeq(ev.frags, 1, Len(ev.frags) - 1)
    ELSE ev.frags

RECURSIVE TotalLen(_)
TotalLen(fs) == IF fs = <<>> THEN 0 ELSE Len(fs[1]) + TotalLen(Tail(fs))

\* C12: a fragment that brings the accumulated encoded bytes of its run over
\* AUTHENTICATE_MAX_SIZE makes sasl_step send "AUTHENTICATE *", call
\* cap_finish_negotiation once, emit the failure "The server sent an invalid
\* payload", not call sasl_step_complete and not re-arm the timer; a full
\* chunk that keeps the run within the limit fails nothing
C12_Oversize ==
    ev.kind = "authenticate" =>
        /\ TotalLen(PayloadFragments) > AUTHENTICATE_MAX_SIZE =>
              /\ out = << irc_send_cmd_now(<<"*">>) >>
              /\ sig = << sasl_failure_signal("The server sent an invalid payload") >>
              /\ ev.finish_cap = 1
              /\ ev.complete = 0
              /\ req = NULL
              /\ ~ev.armed
              /\ sasl_timeout = 0
        /\ (/\ Len(LastFragment) = AUTHENTICATE_CHUNK_SIZE
            /\ TotalLen(PayloadFragments) <= AUTHENTICATE_MAX_SIZE) =>
              /\ ev.finish_cap = 0
              /\ sig = <<>>
              /\ out = <<>>

\* the 21st full chunk of a run has been rejected
C12_Witness ==
    /\ ev.kind = "authenticate"
    /\ Len(ev.frags) = (AUTHENTICATE_MAX_SIZE \div AUTHENTICATE_CHUNK_SIZE) + 1
    /\ Len(LastFragment) = AUTHENTICATE_CHUNK_SIZE
    /\ ev.finish_cap = 1

RECURSIVE ConcatFragments(_)
ConcatFragments(fs) == IF fs = <<>> THEN <<>> ELSE fs[1] \o ConcatFragments(Tail(fs))

\* the text is base64: characters of the alphabet in groups of four, with at
\* most two '=' and only at the end
ValidBase64(text) ==
    LET n == Len(text)
    IN  /\ n % 4 = 0
        /\ \A i \in 1..n : mime_base64_rank(text[i]) # 255
        /\ \A i \in 1..n : text[i] = "=" => (i >= n - 1 /\ text[n] = "=")

\* the last fragment completed a payload within the size limit
Completing ==
    /\ ev.kind = "authenticate"
    /\ Len(LastFragment) # AUTHENTICATE_CHUNK_SIZE
    /\ TotalLen(PayloadFragments) <= AUTHENTICATE_MAX_SIZE

\* C13: a completed payload other than the sole "+" that is not valid base64
\* is answered by "AUTHENTICATE *", cap_finish_negotiation and the failure
\* "The server sent an invalid payload", and sasl_step_complete is not called
C13_MalformedFails ==
    (/\ Completing
     /\ ev.frags # << <<"+">> >>
     /\ ~ValidBase64(ConcatFragments(PayloadFragments))) =>
        /\ out = << irc_send_cmd_now(<<"*">>) >>
        /\ sig = << sasl_failure_signal("The server sent an invalid payload") >>
        /\ ev.finish_cap = 1
        /\ ev.complete = 0

\* C14: a numeric 902, 904, 905 or 906 handled while the session awaits a
\* challenge removes the timer the session holds, emits "server sasl failure"
\* once with the numeric's second parameter as the reason, calls
\* cap_finish_negotiation once, sends no line and arms no timer
C14_ServerFailure ==
    (ev.kind \in FailNumerics /\ ev.started_before /\ ~ev.terminal_before) =>
        /\ ev.removed # {}
        /\ ev.removed \subseteq ev.pending_before
        /\ ev.removed \cap timers = {}
        /\ sasl_timeout = 0
        /\ ~ev.armed
        /\ sig = << sasl_failure_signal(ev.error) >>
        /\ ev.finish_cap = 1
        /\ out = <<>>

\* a 904 has been handled while a challenge was awaited
C14_Witness ==
    /\ ev.kind = "904"
    /\ ev.started_before
    /\ ~ev.terminal_before
    /\ ev.error = "Invalid credentials"
    /\ sig = << sasl_failure_signal("Invalid credentials") >>

\* C15: when a fragment completes a payload, the decoded output is the base64
\* decoding of the concatenation, in order, of the fragments received since
\* the last completed payload, without the "+" that terminates a run of
\* earlier fragments; a "+" that is the whole run gives the empty payload
C15_DecodedConcat ==
    Completing =>
        req = Ptr(IF ev.frags = << <<"+">> >>
                  THEN <<>>
                  ELSE g_base64_decode(ConcatFragments(PayloadFragments)))

\* a payload of two full chunks has been completed by a short fragment or by
\* the terminator
C15_Witness ==
    /\ Completing
    /\ Len(ev.frags) = 3
    /\ LastFragment \in { <<"Q","Q","=","=">>, <<"+">> }
    /\ req # NULL
    /\ Len(req[1]) >= 600

\* C16: between handlers a timer is pending exactly when the session has been
\* started and has not made a terminal transition; sasl_start arms it, every
\* inbound SASL event removes the one held, and every fragment handled
\* without a reassembly failure arms it again
C16_TimerDiscipline ==
    /\ (timers # {}) <=> (started /\ ~terminal)
    /\ ev.kind = "cap ack sasl" => ev.armed
    /\ (ev.kind \in SaslEvents /\ ev.pending_before # {}) => ev.removed # {}
    /\ (ev.kind = "authenticate" /\ ev.finish_cap = 0) => ev.armed

\* C17: a fragment of AUTHENTICATE_CHUNK_SIZE characters is never the last of
\* its payload: handling it sends no response line and does not call
\* sasl_step_complete; sasl_step_complete is called once for a completed
\* payload, on the first fragment of another length that follows the full
\* chunks of the run, with the payload decoded from the run
C17_FullChunkNonFinal ==
    ev.kind = "authenticate" =>
        /\ Len(LastFragment) = AUTHENTICATE_CHUNK_SIZE =>
              /\ ev.complete = 0
              /\ req = NULL
              /\ \A i \in 1..Len(out) : out[i] = irc_send_cmd_now(<<"*">>)
        /\ Completing =>
              /\ ev.complete = 1
              /\ req # NULL
              /\ out = sasl_step_complete(connrec, req[1])
        /\ ev.complete = 1 =>
              /\ Len(LastFragment) # AUTHENTICATE_CHUNK_SIZE
              /\ \A i \in 1..(Len(ev.frags) - 1) :
                    Len(ev.frags[i]) = AUTHENTICATE_CHUNK_SIZE

\* a second full chunk has been taken in without an answer
C17_Witness ==
    /\ ev.kind = "authenticate"
    /\ Len(ev.frags) = 2
    /\ Len(LastFragment) = AUTHENTICATE_CHUNK_SIZE
    /\ ev.complete = 0
    /\ out = <<>>
    /\ sasl_buffer # NULL

\* C18: with the PLAIN mechanism the credential response is sent at most once
\* in a session, in answer to the first completed challenge, and it is the
\* same whatever the challenge holds
C18_PlainOneShot ==
    (/\ ev.kind = "authenticate"
     /\ connrec.sasl_mechanism = SASL_MECHANISM_PLAIN
     /\ ev.complete = 1) =>
        /\ ~ev.answered_before
        /\ out = sasl_step_complete(connrec, <<>>)

\* C19: a buffer retained when a handler returns holds a positive multiple of
\* AUTHENTICATE_CHUNK_SIZE characters, at most 8000 of them, so a "+" that
\* terminates a buffered run is never rejected for its size
C19_RetainedMultiple ==
    /\ sasl_buffer # NULL =>
          /\ Len(sasl_buffer[1]) > 0
          /\ Len(sasl_buffer[1]) % AUTHENTICATE_CHUNK_SIZE = 0
          /\ Len(sasl_buffer[1]) <=
                (AUTHENTICATE_MAX_SIZE \div AUTHENTICATE_CHUNK_SIZE) * AUTHENTICATE_CHUNK_SIZE
    /\ (/\ ev.kind = "authenticate"
        /\ ev.buffered_before
        /\ LastFragment = <<"+">>) =>
          /\ ev.finish_cap = 0
          /\ ev.complete = 1

\* a "+" has closed a run of 20 full chunks, retained as 8000 characters
C19_Witness ==
    /\ ev.kind = "authenticate"
    /\ ev.buffered_before
    /\ Len(ev.frags) = (AUTHENTICATE_MAX_SIZE \div AUTHENTICATE_CHUNK_SIZE) + 1
    /\ LastFragment = <<"+">>
    /\ ev.complete = 1
    /\ sasl_buffer = NULL

\* C20: g_source_remove is only called with the handle of a timer that is
\* still pending, and server->sasl_timeout is non-zero only while the timer
\* it names is pending (has neither fired nor been removed)
C20_HandleLive ==
    /\ ev.removed \subseteq ev.pending_before
    /\ sasl_timeout # 0 => sasl_timeout \in timers

\* after a failure ended the session a fragment armed a timer, and the next
\* fragment has removed it and armed another
C20_Witness ==
    /\ ev.kind = "authenticate"
    /\ ev.removed # {}
    /\ ev.terminal_before
    /\ n_failure > 0
    /\ sasl_timeout # 0

====
